---------------------------- MODULE Spec2Model ----------------------------
(***************************************************************************)
(* chatpack-web: the conversion-invocation lifecycle.                      *)
(*                                                                         *)
(*   - the useWasm hook (src/src/hooks/useWasm.ts): the module loader, the *)
(*     conversion invoker and the error classifier;                        *)
(*   - the App component (src/unnamed/part_002) that drives the hook from  *)
(*     the user interface, with the DropZone and FlagsSelector widgets.    *)
(*                                                                         *)
(* JavaScript strings are tuples of one-character strings, so that         *)
(* toLowerCase, includes, trim and length are computed as the code         *)
(* computes them.  A nullable value (T | null) is the empty tuple for null *)
(* and the one-element tuple <<v>> for the value v.                        *)
(*                                                                         *)
(* React applies the state updates a handler or a promise continuation     *)
(* makes in one batch, and runs the effect of a committed render before    *)
(* the next event is handled: an action is one such batch.                 *)
(***************************************************************************)
EXTENDS Integers, Sequences, FiniteSets, TLC

VARIABLES
    \* useWasm: the useState cells (useWasm.ts:56-60)
    module, isLoading, error, version, retryCount,
    \* useWasm: the loadWasm executions suspended at an await, and the
    \* number of executions started so far
    inFlight, loadsStarted,
    \* whether the load effect of the first render has run
    mounted,
    \* whether the component that hosts the hook has been unmounted
    tornDown,
    \* App: the useState cells (part_002:31-38)
    file, source, format, flags, status, appError, result, progress,
    \* App: the handleConvert executions suspended at await file.text(), and
    \* the number of pending setTimeout callbacks that reset the progress
    jobs, resetTimers,
    \* DropZone: the sizeError cell (DropZone.tsx:20)
    sizeError,
    \* the arguments the hook's caller passes to convert()
    request,
    \* a call of one of the module's pure functions (humanizeError,
    \* needsProgressIndicator, estimateProcessingTime) with its argument,
    \* and what the call returned once it has been made
    call, returned,
    \* history: the operation of the last step; the raw message, when that
    \* step was a failed load; the invocation, when it was a convert();
    \* the number of retry() calls made
    lastOp, lastRaw, lastConvert, retryCalls

hookVars == <<module, isLoading, error, version, retryCount, inFlight, loadsStarted,
              mounted, tornDown>>
appVars  == <<file, source, format, flags, status, appError, result, progress,
              jobs, resetTimers, sizeError>>
histVars == <<lastOp, lastRaw, lastConvert, retryCalls>>
callVars == <<call, returned>>
vars     == <<hookVars, appVars, request, callVars, histVars>>

-----------------------------------------------------------------------------
(* Bounds of the model *)

\* retry() calls explored
MaxRetries == 2

-----------------------------------------------------------------------------
(* Nullable values and strings *)

None == <<>>

Some(v) == <<v>>

IsNull(n) == n = <<>>

Value(n) == n[1]

Min(S) == CHOOSE x \in S : \A y \in S : x <= y

Max(S) == CHOOSE x \in S : \A y \in S : x >= y

UpperCase ==
    <<"A","B","C","D","E","F","G","H","I","J","K","L","M",
      "N","O","P","Q","R","S","T","U","V","W","X","Y","Z">>

LowerCase ==
    <<"a","b","c","d","e","f","g","h","i","j","k","l","m",
      "n","o","p","q","r","s","t","u","v","w","x","y","z">>

\* the lower-case letter of each upper-case ASCII letter
LowerOf ==
    [c \in {UpperCase[k] : k \in 1..26} |->
        LowerCase[CHOOSE k \in 1..26 : UpperCase[k] = c]]

\* String.prototype.toLowerCase, on the ASCII letters
toLowerCase(s) ==
    [i \in 1..Len(s) |-> IF s[i] \in DOMAIN LowerOf THEN LowerOf[s[i]] ELSE s[i]]

\* String.prototype.includes
includes(s, sub) ==
    \E i \in 0..(Len(s) - Len(sub)) : SubSeq(s, i + 1, i + Len(sub)) = sub

\* the white space String.prototype.trim strips (the ASCII part of it)
WhiteSpace == {" ", "\t", "\n", "\r", "\f"}

\* String.prototype.trim
trim(s) ==
    LET keep == {i \in 1..Len(s) : s[i] \notin WhiteSpace}
    IN  IF keep = {} THEN <<>> ELSE SubSeq(s, Min(keep), Max(keep))

-----------------------------------------------------------------------------
(* String literals of the source *)

KEY_UnknownSource ==
    <<"U","n","k","n","o","w","n"," ","s","o","u","r","c","e">>

KEY_UnknownFormat ==
    <<"U","n","k","n","o","w","n"," ","f","o","r","m","a","t">>

KEY_FailedToParse ==
    <<"F","a","i","l","e","d"," ","t","o"," ","p","a","r","s","e">>

KEY_InvalidJSON ==
    <<"I","n","v","a","l","i","d"," ","J","S","O","N">>

KEY_EmptyInput ==
    <<"E","m","p","t","y"," ","i","n","p","u","t">>

KEY_WASM ==
    <<"W","A","S","M">>

KEY_network ==
    <<"n","e","t","w","o","r","k">>

KEY_default ==
    <<"d","e","f","a","u","l","t">>

MSG_UnknownSource ==
    <<"U","n","k","n","o","w","n"," ","s","o","u","r","c","e","."," ","S","u","p","p","o","r",
      "t","e","d",":"," ","T","e","l","e","g","r","a","m",","," ","W","h","a","t","s","A","p",
      "p",","," ","I","n","s","t","a","g","r","a","m",","," ","D","i","s","c","o","r","d">>

MSG_UnknownFormat ==
    <<"U","n","k","n","o","w","n"," ","f","o","r","m","a","t","."," ","S","u","p","p","o","r",
      "t","e","d",":"," ","C","S","V",","," ","J","S","O","N",","," ","J","S","O","N","L">>

MSG_FailedToParse ==
    <<"F","a","i","l","e","d"," ","t","o"," ","p","a","r","s","e"," ","f","i","l","e","."," ",
      "M","a","k","e"," ","s","u","r","e"," ","i","t","'","s"," ","a","n"," ","e","x","p","o",
      "r","t"," ","f","r","o","m"," ","a"," ","s","u","p","p","o","r","t","e","d"," ","m","e",
      "s","s","e","n","g","e","r">>

MSG_InvalidJSON ==
    <<"I","n","v","a","l","i","d"," ","J","S","O","N","."," ","C","h","e","c","k"," ","f","i",
      "l","e"," ","i","n","t","e","g","r","i","t","y">>

MSG_EmptyInput ==
    <<"F","i","l","e"," ","i","s"," ","e","m","p","t","y"," ","o","r"," ","c","o","n","t","a",
      "i","n","s"," ","n","o"," ","m","e","s","s","a","g","e","s">>

MSG_WASM ==
    <<"F","a","i","l","e","d"," ","t","o"," ","l","o","a","d"," ","c","o","n","v","e","r","t",
      "e","r","."," ","T","r","y"," ","r","e","f","r","e","s","h","i","n","g"," ","t","h","e",
      " ","p","a","g","e">>

MSG_network ==
    <<"N","e","t","w","o","r","k"," ","e","r","r","o","r","."," ","C","h","e","c","k"," ","y",
      "o","u","r"," ","i","n","t","e","r","n","e","t"," ","c","o","n","n","e","c","t","i","o",
      "n">>

MSG_default ==
    <<"A","n"," ","e","r","r","o","r"," ","o","c","c","u","r","r","e","d"," ","d","u","r","i",
      "n","g"," ","c","o","n","v","e","r","s","i","o","n">>

MARK_panicked ==
    <<"p","a","n","i","c","k","e","d">>

MARK_wasm ==
    <<"w","a","s","m">>

ERR_NotLoaded ==
    <<"C","o","n","v","e","r","t","e","r"," ","n","o","t"," ","l","o","a","d","e","d","."," ",
      "R","e","f","r","e","s","h"," ","t","h","e"," ","p","a","g","e"," ","a","n","d"," ","t",
      "r","y"," ","a","g","a","i","n",".">>

ERR_EmptyFile ==
    <<"F","i","l","e"," ","i","s"," ","e","m","p","t","y"," ","o","r"," ","c","o","n","t","a",
      "i","n","s"," ","n","o"," ","d","a","t","a">>

RAW_UnknownSourceFoo ==
    <<"U","n","k","n","o","w","n"," ","s","o","u","r","c","e",":"," ","f","o","o">>

RAW_Boom ==
    <<"b","o","o","m">>

RAW_Panicked ==
    <<"p","a","n","i","c","k","e","d"," ","a","t"," ","l","i","b",".","r","s">>

RAW_Empty ==
    <<>>

TXT_Empty ==
    <<>>

TXT_Spaces ==
    <<" "," ">>

TXT_Newlines ==
    <<" ","\n","\t">>

TXT_Hello ==
    <<"h","e","l","l","o">>

TXT_Padded ==
    <<" ","h","i","\n">>

OUT_Csv ==
    <<"i","d",",","t","e","x","t","\n","1",",","h","e","l","l","o","\n">>

ERR_ConversionFallback ==
    <<"U+041E","U+0448","U+0438","U+0431","U+043A","U+0430"," ","U+043A","U+043E","U+043D",
      "U+0432","U+0435","U+0440","U+0442","U+0430","U+0446","U+0438","U+0438">>

STR_chatpack ==
    <<"_","c","h","a","t","p","a","c","k",".">>

STR_csv ==
    <<"c","s","v">>

STR_json ==
    <<"j","s","o","n">>

STR_jsonl ==
    <<"j","s","o","n","l">>

STR_result_json ==
    <<"r","e","s","u","l","t",".","j","s","o","n">>

STR_telegram ==
    <<"t","e","l","e","g","r","a","m">>

STR_whatsapp ==
    <<"w","h","a","t","s","a","p","p">>

STR_chat_txt ==
    <<"_","c","h","a","t",".","t","x","t">>

STR_whatsapp_chat ==
    <<"w","h","a","t","s","a","p","p"," ","c","h","a","t">>

STR_instagram ==
    <<"i","n","s","t","a","g","r","a","m">>

STR_message_ ==
    <<"m","e","s","s","a","g","e","_">>

STR_dot_json ==
    <<".","j","s","o","n">>

STR_discord ==
    <<"d","i","s","c","o","r","d">>

STR_messages_json ==
    <<"m","e","s","s","a","g","e","s",".","j","s","o","n">>

NAME_ResultJson ==
    <<"r","e","s","u","l","t",".","j","s","o","n">>

NAME_DiscordExport ==
    <<"D","i","s","c","o","r","d","-","g","e","n","e","r","a","l",".","j","s","o","n">>

NAME_Message1 ==
    <<"m","e","s","s","a","g","e","_","1",".","j","s","o","n">>

STR_LessThanASecond ==
    <<"l","e","s","s"," ","t","h","a","n"," ","a"," ","s","e","c","o","n","d">>

STR_Sec ==
    <<" ","s","e","c">>

STR_Min ==
    <<" ","m","i","n">>

PRE_Error ==
    <<"E","r","r","o","r",":"," ">>

SUF_Foo ==
    <<":"," ","f","o","o">>

SUF_Panicked ==
    <<" ","p","a","n","i","c","k","e","d"," ","a","t"," ","l","i","b",".","r","s",":","1">>

RAW_DefaultExport ==
    <<"C","a","n","n","o","t"," ","r","e","a","d"," ","d","e","f","a","u","l","t"," ","e","x",
      "p","o","r","t">>

RAW_ThreadPanicked ==
    <<"t","h","r","e","a","d"," ","'","m","a","i","n","'"," ","p","a","n","i","c","k","e","d">>

RAW_FileNotFound ==
    <<"F","i","l","e"," ","n","o","t"," ","f","o","u","n","d",":"," ","c","h","a","t",".","t",
      "x","t">>

-----------------------------------------------------------------------------
(* Error classification (useWasm.ts:30-53) *)

\* Object.entries(ERROR_MESSAGES): the entries in declaration order
ERROR_MESSAGES ==
    << [key |-> KEY_UnknownSource, message |-> MSG_UnknownSource],
       [key |-> KEY_UnknownFormat, message |-> MSG_UnknownFormat],
       [key |-> KEY_FailedToParse, message |-> MSG_FailedToParse],
       [key |-> KEY_InvalidJSON,   message |-> MSG_InvalidJSON],
       [key |-> KEY_EmptyInput,    message |-> MSG_EmptyInput],
       [key |-> KEY_WASM,          message |-> MSG_WASM],
       [key |-> KEY_network,       message |-> MSG_network],
       [key |-> KEY_default,       message |-> MSG_default] >>

\* the keys compared as they are written in the table
LowerKeys_AsWritten == [k \in 1..Len(ERROR_MESSAGES) |-> ERROR_MESSAGES[k].key]

\* key.toLowerCase() of each entry
LowerKeys == [k \in 1..Len(ERROR_MESSAGES) |-> toLowerCase(ERROR_MESSAGES[k].key)]

\* a loop that keeps the entry declared last among the matching ones
MatchingEntries_LastOnly(lower) ==
    LET hits == {k \in 1..Len(ERROR_MESSAGES) : includes(lower, LowerKeys[k])}
    IN  IF hits = {} THEN {} ELSE {Max(hits)}

\* the entries whose key the lower-cased message includes
MatchingEntries(lower) ==
    {k \in 1..Len(ERROR_MESSAGES) : includes(lower, LowerKeys[k])}

\* a classifier that also returns a message of exactly 100 characters
humanizeError_Upto100(err) ==
    LET hits == UNION {MatchingEntries(lower) : lower \in {toLowerCase(err)}}
    IN  IF hits # {}
        THEN ERROR_MESSAGES[Min(hits)].message
        ELSE IF Len(err) <= 100 /\ ~includes(err, MARK_panicked)
                                /\ ~includes(err, MARK_wasm)
             THEN err
             ELSE MSG_default

humanizeError(err) ==
    LET hits == UNION {MatchingEntries(lower) : lower \in {toLowerCase(err)}}
    IN  IF hits # {}
        THEN ERROR_MESSAGES[Min(hits)].message
        ELSE IF Len(err) < 100 /\ ~includes(err, MARK_panicked)
                               /\ ~includes(err, MARK_wasm)
             THEN err
             ELSE MSG_default

-----------------------------------------------------------------------------
(* The external module (wasm.d.ts, useWasm.ts:3-12) and the inputs explored *)

\* the namespace object the dynamic import resolves to
WasmHandle == "chatpack_wasm"

\* what wasm.version() returns
WasmVersion == "0.1.0"

\* raw messages a failing import or init carries
LoadErrors == {RAW_UnknownSourceFoo, RAW_Boom, RAW_Panicked, RAW_Empty}

\* raw messages a throwing convert of the module carries
ConvertErrors == {RAW_UnknownSourceFoo, RAW_Boom, RAW_Panicked}

\* texts handed to convert()
InputTexts == {TXT_Empty, TXT_Spaces, TXT_Newlines, TXT_Hello, TXT_Padded}

\* strings the module's convert returns
ModuleOutputs == {OUT_Csv}

\* the source and format arguments explored at the hook's interface
SourceFormatArgs == {<<"telegram", "csv">>, <<"discord", "jsonl">>}

\* ConvertOptions: a record in which each flag may be left out
OptionsRecords ==
    UNION {[D -> BOOLEAN] : D \in SUBSET {"timestamps", "replays"}}

\* the options argument: left out, or a ConvertOptions record
OptionsArgs == {None} \cup {Some(o) : o \in OptionsRecords}

\* what one call of the module's convert does: return a string or throw
ModuleOutcomes ==
    {[threw |-> FALSE, value |-> o] : o \in ModuleOutputs} \cup
    {[threw |-> TRUE,  value |-> e] : e \in ConvertErrors}

\* the convert() invocations explored at the hook's interface
Requests ==
    {[input |-> i, source |-> sf[1], format |-> sf[2], options |-> o] :
        i \in InputTexts, sf \in SourceFormatArgs, o \in OptionsArgs}

-----------------------------------------------------------------------------
(* useWasm: the loader (useWasm.ts:55-87, 116-124) *)

\* the cells loadWasm writes
HookState ==
    [module |-> module, isLoading |-> isLoading, error |-> error, version |-> version]

\* isReady as the hook returns it
isReadyOf(h) == ~IsNull(h.module) /\ ~h.isLoading

isReady == isReadyOf(HookState)

\* loadWasm up to its first await: setIsLoading(true); setError(null)
loadWasm_Begin(h) == [h EXCEPT !.isLoading = TRUE, !.error = None]

\* loadWasm after both awaits resolved: setModule; setVersion; setIsLoading(false)
loadWasm_Success(h) ==
    [h EXCEPT !.module = Some(WasmHandle),
              !.version = Some(WasmVersion),
              !.isLoading = FALSE]

\* a catch that records the error and leaves isLoading as it is
loadWasm_Catch_StillLoading(h, raw) == [h EXCEPT !.error = Some(humanizeError(raw))]

\* loadWasm's catch: setError(humanizeError(message)); setIsLoading(false)
loadWasm_Catch(h, raw) ==
    [h EXCEPT !.error = Some(humanizeError(raw)), !.isLoading = FALSE]

SetHook(h) ==
    /\ module' = h.module
    /\ isLoading' = h.isLoading
    /\ error' = h.error
    /\ version' = h.version

\* what a step that is neither a failed load nor a convert() records
Did(op) ==
    /\ lastOp' = op
    /\ lastRaw' = None
    /\ lastConvert' = None

\* the effect of useWasm.ts:81-83 after the first render: loadWasm() runs
\* to its first await
Mount ==
    /\ ~mounted
    /\ ~tornDown
    /\ mounted' = TRUE
    /\ SetHook(loadWasm_Begin(HookState))
    /\ inFlight' = inFlight + 1
    /\ loadsStarted' = loadsStarted + 1
    /\ Did("mount")
    /\ UNCHANGED <<retryCount, tornDown, appVars, request, callVars, retryCalls>>

\* a retry() that starts a load without counting it
retry_NoCount(n) == n

\* setRetryCount(prev => prev + 1)
retry(n) == n + 1

\* retry(), and the effect its re-render runs (retryCount is a dependency
\* of the effect): loadWasm() runs to its first await
Retry ==
    /\ mounted
    /\ ~tornDown
    /\ retryCalls < MaxRetries
    /\ retryCount' = retry(retryCount)
    /\ SetHook(loadWasm_Begin(HookState))
    /\ inFlight' = inFlight + 1
    /\ loadsStarted' = loadsStarted + 1
    /\ retryCalls' = retryCalls + 1
    /\ Did("retry")
    /\ UNCHANGED <<mounted, tornDown, appVars, request, callVars>>

\* both awaits of a suspended loadWasm resolve (useWasm.ts:67-72)
LoadSucceeds ==
    /\ inFlight > 0
    /\ inFlight' = inFlight - 1
    /\ SetHook(loadWasm_Success(HookState))
    /\ Did("loadSucceeded")
    /\ UNCHANGED <<retryCount, loadsStarted, mounted, tornDown, appVars, request,
                   callVars, retryCalls>>

\* the import or the init of a suspended loadWasm rejects with the
\* message raw (useWasm.ts:73-78)
LoadFails(raw) ==
    /\ inFlight > 0
    /\ inFlight' = inFlight - 1
    /\ SetHook(loadWasm_Catch(HookState, raw))
    /\ lastOp' = "loadFailed"
    /\ lastRaw' = Some(raw)
    /\ lastConvert' = None
    /\ UNCHANGED <<retryCount, loadsStarted, mounted, tornDown, appVars, request,
                   callVars, retryCalls>>

\* the component that hosts the hook is unmounted; the load effect
\* (useWasm.ts:81-83) returns no cleanup, so the suspended loadWasm
\* executions stay as they are
Unmount ==
    /\ mounted
    /\ ~tornDown
    /\ tornDown' = TRUE
    /\ Did("unmount")
    /\ UNCHANGED <<module, isLoading, error, version, retryCount, inFlight,
                   loadsStarted, mounted, appVars, request, callVars, retryCalls>>

-----------------------------------------------------------------------------
(* useWasm: the conversion invoker (useWasm.ts:89-114) *)

\* the module's convert as a black box: it returns or throws what the
\* caller of this operator chose
ModuleConvert(input, src, fmt, includeTimestamps, includeReplies, outcome) ==
    [call   |-> [input |-> input, source |-> src, format |-> fmt,
                 includeTimestamps |-> includeTimestamps,
                 includeReplies |-> includeReplies],
     threw  |-> outcome.threw,
     value  |-> outcome.value]

\* const { timestamps = false, replays = false } = options
OptionOr(options, name, default) ==
    IF name \in DOMAIN options THEN options[name] ELSE default

\* an invoker that only rejects the empty string
IsBlank_NoTrim(input) == input = <<>>

\* !input || input.trim().length === 0
IsBlank(input) == input = <<>> \/ Len(trim(input)) = 0

\* an invoker that hands the two flags over in the wrong order
FlagsOf_Swapped(options) ==
    [timestamps |-> OptionOr(options, "replays", FALSE),
     replays    |-> OptionOr(options, "timestamps", FALSE)]

FlagsOf(options) ==
    [timestamps |-> OptionOr(options, "timestamps", FALSE),
     replays    |-> OptionOr(options, "replays", FALSE)]

\* an invoker that rethrows the module's message as it is
Rethrow_Raw(message) == message

\* throw new Error(humanizeError(errorMessage))
Rethrow(message) == humanizeError(message)

\* if (!module)
NotLoaded(mod) == IsNull(mod)

\* convert(input, source, format, options) with the handle mod of the
\* render that created the callback.  calls: the calls of the module's
\* convert it made; ok: whether the promise fulfils; value: the string it
\* fulfils with, or the message of the Error it rejects with.
convert(mod, input, src, fmt, optionsArg, outcome) ==
    IF NotLoaded(mod)
    THEN [calls |-> <<>>, ok |-> FALSE, value |-> ERR_NotLoaded]
    ELSE IF IsBlank(input)
    THEN [calls |-> <<>>, ok |-> FALSE, value |-> ERR_EmptyFile]
    ELSE LET options == IF IsNull(optionsArg) THEN <<>> ELSE Value(optionsArg)
             f == FlagsOf(options)
             r == ModuleConvert(input, src, fmt, f.timestamps, f.replays, outcome)
         IN  IF outcome.threw
             THEN [calls |-> <<r.call>>, ok |-> FALSE, value |-> Rethrow(r.value)]
             ELSE [calls |-> <<r.call>>, ok |-> TRUE,  value |-> r.value]

\* the record kept of one convert() invocation: who called, the flags the
\* user interface showed when the call was requested (App only), the handle
\* of the callback, isReady at the call, the arguments, what the module did
\* if it was called, and what convert() did
ConvertRecord(by, uiFlags, mod, ready, input, src, fmt, optionsArg, outcome) ==
    CHOOSE rec \in
      {[by |-> by, uiFlags |-> uiFlags, handle |-> mod, ready |-> ready,
        input |-> input, source |-> src, format |-> fmt, options |-> optionsArg,
        outcome |-> IF r.calls = <<>> THEN None ELSE Some(outcome),
        calls |-> r.calls, ok |-> r.ok, value |-> r.value] :
          r \in {convert(mod, input, src, fmt, optionsArg, outcome)}} : TRUE

\* a convert() that stores the message of a failed call in the loader's
\* error cell
Convert_StoresError(outcome) ==
    /\ ~tornDown
    /\ \E rec \in {ConvertRecord("caller", None, module, isReady, request.input,
                                  request.source, request.format, request.options,
                                  outcome)} :
          /\ lastConvert' = Some(rec)
          /\ error' = IF rec.ok THEN error ELSE Some(rec.value)
    /\ lastOp' = "convert"
    /\ lastRaw' = None
    /\ UNCHANGED <<module, isLoading, version, retryCount, inFlight, loadsStarted,
                   mounted, tornDown, appVars, request, callVars, retryCalls>>

\* the hook's caller invokes the convert() of the current render
Convert(outcome) ==
    /\ ~tornDown
    /\ lastConvert' =
          Some(ConvertRecord("caller", None, module, isReady, request.input,
                             request.source, request.format, request.options,
                             outcome))
    /\ lastOp' = "convert"
    /\ lastRaw' = None
    /\ UNCHANGED <<hookVars, appVars, request, callVars, retryCalls>>

-----------------------------------------------------------------------------
(* Progress heuristic (useWasm.ts:141-144) *)

\* a heuristic that also asks for the indicator at exactly 1 MiB
needsProgressIndicator_AtLeast(fileSize) == fileSize >= 1024 * 1024

needsProgressIndicator(fileSize) == fileSize > 1024 * 1024

-----------------------------------------------------------------------------
(* Source detection from the file name (part_005) *)

startsWith(s, p) == Len(s) >= Len(p) /\ SubSeq(s, 1, Len(p)) = p

endsWith(s, p) == Len(s) >= Len(p) /\ SubSeq(s, Len(s) - Len(p) + 1, Len(s)) = p

Digits == {"0", "1", "2", "3", "4", "5", "6", "7", "8", "9"}

\* /message_\d+\.json$/.test(name)
MatchesMessageN(name) ==
    /\ endsWith(name, STR_dot_json)
    /\ LET stem == SubSeq(name, 1, Len(name) - Len(STR_dot_json))
       IN  \E k \in 1..Len(stem) :
              /\ \A i \in (Len(stem) - k + 1)..Len(stem) : stem[i] \in Digits
              /\ endsWith(SubSeq(stem, 1, Len(stem) - k), STR_message_)

detectSource(filename) ==
    LET name == toLowerCase(filename)
    IN  IF name = STR_result_json \/ includes(name, STR_telegram)
        THEN Some("telegram")
        ELSE IF \/ includes(name, STR_whatsapp)
                \/ endsWith(name, STR_chat_txt)
                \/ startsWith(name, STR_whatsapp_chat)
        THEN Some("whatsapp")
        ELSE IF includes(name, STR_instagram) \/ MatchesMessageN(name)
        THEN Some("instagram")
        ELSE IF \/ includes(name, STR_discord)
                \/ (name = STR_messages_json /\ ~includes(name, STR_instagram))
        THEN Some("discord")
        ELSE None

-----------------------------------------------------------------------------
(* DropZone (DropZone.tsx) *)

\* a limit of 100 MiB
MAX_FILE_SIZE_Doubled == 100 * 1024 * 1024

MAX_FILE_SIZE == 50 * 1024 * 1024

\* the File objects the user may drop or pick: name and size in bytes
CandidateFiles ==
    { [name |-> NAME_ResultJson,    size |-> 5],
      [name |-> NAME_DiscordExport, size |-> 50 * 1024 * 1024],
      [name |-> NAME_Message1,      size |-> 50 * 1024 * 1024 + 1] }

\* the texts file.text() may resolve with
FileTexts == {TXT_Hello, TXT_Spaces}

\* what the module's convert may do with the text of a file
FileOutcomes ==
    {[threw |-> FALSE, value |-> OUT_Csv], [threw |-> TRUE, value |-> RAW_UnknownSourceFoo]}

\* Number.prototype.toFixed(1) of bytes / unit, in tenths
ToFixed1(bytes, unit) == (bytes * 20 + unit) \div (2 * unit)

\* formatFileSize: the number shown (in tenths for KB and MB) and the unit
formatFileSize(bytes) ==
    IF bytes < 1024
    THEN [number |-> bytes, tenths |-> FALSE, unit |-> "B"]
    ELSE IF bytes < 1024 * 1024
    THEN [number |-> ToFixed1(bytes, 1024), tenths |-> TRUE, unit |-> "KB"]
    ELSE [number |-> ToFixed1(bytes, 1024 * 1024), tenths |-> TRUE, unit |-> "MB"]

\* `File too large (${...}). Max: ${...}`: the two sizes the message shows
TooLargeMessage(f) ==
    [shown |-> formatFileSize(f.size), max |-> formatFileSize(MAX_FILE_SIZE)]

\* the disabled prop App passes to the DropZone and the selectors
disabled == status = "converting"

-----------------------------------------------------------------------------
(* App (part_002) *)

\* the values of the source and format dropdowns and the names of the flags
SourceChoices == {"telegram", "discord"}

FormatChoices == {"csv", "jsonl"}

FlagNames == {"timestamps", "replays"}

\* what a failing file.text() rejects with: an Error with a message, or a
\* value that is no Error
ReadFailures ==
    {[isError |-> TRUE, message |-> RAW_Boom], [isError |-> FALSE, message |-> <<>>]}

\* handleConvert executions explored at the same time, pending reset
\* timeouts, and interval ticks of one execution
MaxJobs == 1

\* the same, where overlapping handleConvert executions are explored
MaxOverlap == 2

MaxOverlapTicks == 2

MaxTimers == 1

MaxTicks == 1

\* progress values are kept in units of 1/10000, exact for the first four
\* ticks of the interval
ProgressScale == 100 * 100

\* Math.min(95, currentProgress + (95 - currentProgress) * 0.1)
NextProgress(cur) ==
    LET cap == 95 * ProgressScale
        nxt == cur + (cap - cur) \div 10
    IN  IF nxt < cap THEN nxt ELSE cap

FormatString(fmt) ==
    CASE fmt = "csv" -> STR_csv
      [] fmt = "json" -> STR_json
      [] fmt = "jsonl" -> STR_jsonl

\* file.name.replace(/\.[^/.]+$/, '')
BaseName(name) ==
    LET dots == {i \in 1..Len(name) :
                    /\ name[i] = "."
                    /\ i < Len(name)
                    /\ \A k \in (i + 1)..Len(name) : name[k] \notin {"/", "."}}
    IN  IF dots = {} THEN name ELSE SubSeq(name, 1, Min(dots) - 1)

\* output.split('\n')
RECURSIVE SplitLines(_)
SplitLines(s) ==
    LET nl == {i \in 1..Len(s) : s[i] = "\n"}
    IN  IF nl = {} THEN <<s>>
        ELSE <<SubSeq(s, 1, Min(nl) - 1)>> \o SplitLines(SubSeq(s, Min(nl) + 1, Len(s)))

\* output.split('\n').filter(line => line.trim()).length
LineCount(output) ==
    LET lines == SplitLines(output)
    IN  Cardinality({i \in 1..Len(lines) : trim(lines[i]) # <<>>})

\* the ConversionResult handleConvert builds (part_002:88-102)
ConversionResultOf(f, fmt, output) ==
    LET lineCount == LineCount(output)
        messageCount == IF fmt = "csv" THEN lineCount - 1 ELSE lineCount
    IN  [content |-> output,
         filename |-> BaseName(f.name) \o STR_chatpack \o FormatString(fmt),
         originalSize |-> f.size,
         outputSize |-> Len(output),
         messageCount |-> IF messageCount > 0 THEN messageCount ELSE 0]

\* handleFileSelect (part_002:41-55)
HandleFileSelect(selectedFile) ==
    /\ file' = selectedFile
    /\ status' = "idle"
    /\ appError' = None
    /\ result' = None
    /\ progress' = None
    /\ \E detectedSource \in {IF IsNull(selectedFile) THEN None
                               ELSE detectSource(Value(selectedFile).name)} :
          source' = IF IsNull(detectedSource) THEN source ELSE Value(detectedSource)

\* a DropZone that also drops the selected file when it rejects one
SelectFile_RejectClears(f) ==
    /\ isReady
    /\ ~disabled
    /\ IF f.size > MAX_FILE_SIZE
       THEN /\ sizeError' = Some(TooLargeMessage(f))
            /\ HandleFileSelect(None)
            /\ Did("fileRejected")
       ELSE /\ sizeError' = None
            /\ HandleFileSelect(Some(f))
            /\ Did("fileSelected")
    /\ UNCHANGED <<hookVars, format, flags, jobs, resetTimers, request, callVars, retryCalls>>

\* handleDrop / handleChange, then validateAndSelect (DropZone.tsx:23-32,
\* 48-72): the user drops or picks the file f
SelectFile(f) ==
    /\ isReady
    /\ ~disabled
    /\ IF f.size > MAX_FILE_SIZE
       THEN /\ sizeError' = Some(TooLargeMessage(f))
            /\ UNCHANGED <<file, source, status, appError, result, progress>>
            /\ Did("fileRejected")
       ELSE /\ sizeError' = None
            /\ HandleFileSelect(Some(f))
            /\ Did("fileSelected")
    /\ UNCHANGED <<hookVars, format, flags, jobs, resetTimers, request, callVars, retryCalls>>

\* handleRemove (DropZone.tsx:74-78); its button is rendered with the size
\* error or with the selected file, and has no disabled attribute
RemoveFile ==
    /\ isReady
    /\ ~IsNull(sizeError) \/ ~IsNull(file)
    /\ sizeError' = None
    /\ HandleFileSelect(None)
    /\ Did("fileRemoved")
    /\ UNCHANGED <<hookVars, format, flags, jobs, resetTimers, request, callVars, retryCalls>>

\* the source dropdown: onChange={setSource} (part_002:215-219)
SetSource(s) ==
    /\ isReady
    /\ ~disabled
    /\ source' = s
    /\ Did("setSource")
    /\ UNCHANGED <<hookVars, file, format, flags, status, appError, result, progress,
                   jobs, resetTimers, sizeError, request, callVars, retryCalls>>

\* the format dropdown: onChange={setFormat} (part_002:224-228)
SetFormat(fmt) ==
    /\ isReady
    /\ ~disabled
    /\ format' = fmt
    /\ Did("setFormat")
    /\ UNCHANGED <<hookVars, file, source, flags, status, appError, result, progress,
                   jobs, resetTimers, sizeError, request, callVars, retryCalls>>

\* FlagsSelector.handleToggle through onChange={setFlags}
\* (FlagsSelector.tsx:24-29, part_002:233-237)
handleToggle(value, flag) == [value EXCEPT ![flag] = ~value[flag]]

ToggleFlag(flag) ==
    /\ isReady
    /\ ~disabled
    /\ flags' = handleToggle(flags, flag)
    /\ Did("toggleFlag")
    /\ UNCHANGED <<hookVars, file, source, format, status, appError, result, progress,
                   jobs, resetTimers, sizeError, request, callVars, retryCalls>>

\* the options argument handleConvert gives to convert(): none
\* (part_002:80, convert(content, source, format))
HandleConvertOptions(uiFlags) == None

\* handleConvert up to await file.text() (part_002:57-79), from a click on
\* the ConvertButton (part_002:242-247, ConvertButton.tsx:19-21)
StartConvert(maxJobs) ==
    /\ isReady
    /\ ~IsNull(file)
    /\ status # "converting"
    /\ Len(jobs) < maxJobs
    /\ status' = "converting"
    /\ appError' = None
    /\ LET showProgress == needsProgressIndicator(Value(file).size)
       IN  /\ progress' = IF showProgress THEN Some(0) ELSE None
           /\ jobs' = Append(jobs,
                 [file |-> Value(file), source |-> source, format |-> format,
                  handle |-> module, interval |-> showProgress,
                  currentProgress |-> 0, ticks |-> 0, uiFlags |-> flags])
    /\ Did("convertClicked")
    /\ UNCHANGED <<hookVars, file, source, format, flags, result, resetTimers,
                   sizeError, request, callVars, retryCalls>>

ConvertClick == StartConvert(MaxJobs)

\* one firing of the progress interval of execution j (part_002:71-75)
Tick(j, maxTicks) ==
    /\ jobs[j].interval
    /\ jobs[j].ticks < maxTicks
    /\ LET nxt == NextProgress(jobs[j].currentProgress)
       IN  /\ jobs' = [jobs EXCEPT ![j].currentProgress = nxt, ![j].ticks = @ + 1]
           /\ progress' = Some(nxt)
    /\ Did("progressTick")
    /\ UNCHANGED <<hookVars, file, source, format, flags, status, appError, result,
                   resetTimers, sizeError, request, callVars, retryCalls>>

ProgressTick(j) == Tick(j, MaxTicks)

Without(seq, j) == SubSeq(seq, 1, j - 1) \o SubSeq(seq, j + 1, Len(seq))

\* the catch of handleConvert (part_002:107-114)
HandleConvertCatch(message) ==
    /\ progress' = None
    /\ appError' = Some(message)
    /\ status' = "error"
    /\ UNCHANGED <<result, resetTimers>>

\* file.text() of execution j resolves with content: convert() is called,
\* and handleConvert runs to its end (part_002:79-114)
TextResolves(j, content, outcome) ==
    /\ j \in 1..Len(jobs)
    /\ \E job \in {jobs[j]} :
       \E rec \in {ConvertRecord("app", Some(job.uiFlags), job.handle, isReady,
                                 content, job.source, job.format,
                                 HandleConvertOptions(job.uiFlags), outcome)} :
          /\ rec.ok => resetTimers < MaxTimers
          /\ jobs' = Without(jobs, j)
          /\ IF rec.ok
             THEN /\ progress' = IF job.interval THEN Some(100 * ProgressScale)
                                 ELSE progress
                  /\ result' = Some(ConversionResultOf(job.file, job.format, rec.value))
                  /\ status' = "success"
                  /\ resetTimers' = resetTimers + 1
                  /\ UNCHANGED appError
             ELSE HandleConvertCatch(rec.value)
          /\ lastOp' = "converted"
          /\ lastRaw' = None
          /\ lastConvert' = Some(rec)
    /\ UNCHANGED <<hookVars, file, source, format, flags, sizeError, request, callVars,
                   retryCalls>>

\* file.text() of execution j rejects
TextRejects(j, failure) ==
    /\ jobs' = Without(jobs, j)
    /\ HandleConvertCatch(IF failure.isError THEN failure.message
                          ELSE ERR_ConversionFallback)
    /\ Did("readFailed")
    /\ UNCHANGED <<hookVars, file, source, format, flags, sizeError, request, callVars,
                   retryCalls>>

\* a timeout of part_002:106 fires: setProgress(undefined)
ProgressReset ==
    /\ resetTimers > 0
    /\ resetTimers' = resetTimers - 1
    /\ progress' = None
    /\ Did("progressReset")
    /\ UNCHANGED <<hookVars, file, source, format, flags, status, appError, result,
                   jobs, sizeError, request, callVars, retryCalls>>

\* a nullable string in a JSX condition: null and '' are falsy
Truthy(s) == ~IsNull(s) /\ Value(s) # <<>>

\* a page that renders the loader's error panel whatever the error is
WasmErrorShown_Always == TRUE

\* {wasmError && ...}: the panel with the loader's error and the retry
\* button (part_002:191-198)
WasmErrorShown == Truthy(error)

\* {error && ...} inside {wasmReady && ...}: the panel with the
\* conversion error (part_002:200, 249-253)
ErrorShown == isReady /\ Truthy(appError)

\* {wasmLoading && ...}: the loading panel (part_002:184-189)
LoadingShown == isLoading

\* {wasmReady && ...}: the converter (part_002:200-273)
ConverterShown == isReady

\* the disabled prop of the ConvertButton (part_002:244)
ConvertButtonDisabled == IsNull(file) \/ status = "converting"

\* a click on the retry button
RetryClick ==
    /\ WasmErrorShown
    /\ Retry

-----------------------------------------------------------------------------
(* Processing-time estimate (useWasm.ts:127-139) *)

RECURSIVE NumberToString(_)
\* String(n) of a non-negative integer, as a template literal renders it:
\* the decimal digits, most significant first
NumberToString(n) ==
    LET digit == <<"0", "1", "2", "3", "4", "5", "6", "7", "8", "9">>
    IN  IF n < 10 THEN <<digit[n + 1]>>
        ELSE NumberToString(n \div 10) \o <<digit[(n % 10) + 1]>>

\* Math.ceil(a / b) of a non-negative a and a positive b
CeilDiv(a, b) == (a + b - 1) \div b

\* a throughput of 1,000 messages per second
BytesPerSecond_Slow == 100 * 1000

\* fileSize / 100 / 100000 is fileSize / BytesPerSecond seconds; the
\* comparisons and the roundings are made on the exact quotient
BytesPerSecond == 100 * 100000

\* an estimate that rounds the seconds and the minutes down
estimateProcessingTime_Floor(fileSize) ==
    IF fileSize < BytesPerSecond
    THEN STR_LessThanASecond
    ELSE IF fileSize < 60 * BytesPerSecond
    THEN <<"~">> \o NumberToString(fileSize \div BytesPerSecond) \o STR_Sec
    ELSE <<"~">> \o NumberToString(fileSize \div (60 * BytesPerSecond)) \o STR_Min

estimateProcessingTime(fileSize) ==
    IF fileSize < BytesPerSecond
    THEN STR_LessThanASecond
    ELSE IF fileSize < 60 * BytesPerSecond
    THEN <<"~">> \o NumberToString(CeilDiv(fileSize, BytesPerSecond)) \o STR_Sec
    ELSE <<"~">> \o NumberToString(CeilDiv(fileSize, 60 * BytesPerSecond)) \o STR_Min

-----------------------------------------------------------------------------
(* Calls of the pure functions, and the arguments explored *)

\* the upper-case letter of each lower-case ASCII letter
UpperOf ==
    [c \in {LowerCase[k] : k \in 1..26} |->
        UpperCase[CHOOSE k \in 1..26 : LowerCase[k] = c]]

\* String.prototype.toUpperCase, on the ASCII letters
toUpperCase(s) ==
    [i \in 1..Len(s) |-> IF s[i] \in DOMAIN UpperOf THEN UpperOf[s[i]] ELSE s[i]]

\* a text of n characters that holds no key and no marker
Filler(n) == [i \in 1..n |-> "x"]

\* the entries of ERROR_MESSAGES that stand for an error class: all but
\* the last one, 'default', which holds the fallback message
KnownKeys == 1..(Len(ERROR_MESSAGES) - 1)

\* each known key as written, in lower case and in upper case
KeySpellings ==
    UNION {{ERROR_MESSAGES[k].key, toLowerCase(ERROR_MESSAGES[k].key),
            toUpperCase(ERROR_MESSAGES[k].key)} : k \in KnownKeys}

\* what precedes and what follows a key in a raw message
Prefixes == {<<>>, PRE_Error, Filler(100)}

Suffixes == {<<>>, SUF_Foo, SUF_Panicked}

\* raw messages that hold a known key
KeyedErrors == {p \o k \o s : p \in Prefixes, k \in KeySpellings, s \in Suffixes}

\* raw messages that hold no known key: short ones, ones around the
\* length threshold, ones with a crash marker, and one with the word
\* 'default'
PlainErrors ==
    {RAW_Empty, RAW_Boom, RAW_FileNotFound, Filler(99), Filler(100), Filler(101),
     RAW_Panicked, RAW_ThreadPanicked, Filler(90) \o SUF_Panicked, RAW_DefaultExport}

\* raw messages that hold two known keys, in either order
TwoKeyErrors ==
    {ERROR_MESSAGES[p[1]].key \o SUF_Foo \o ERROR_MESSAGES[p[2]].key :
        p \in {q \in KnownKeys \X KnownKeys : q[1] # q[2]}}

\* file sizes in bytes around the thresholds of needsProgressIndicator
ProgressSizes == {0, 1, 1024 * 1024 - 1, 1024 * 1024, 1024 * 1024 + 1, 2 * 1024 * 1024}

\* file sizes in bytes around the thresholds of estimateProcessingTime
EstimateSizes ==
    {0, 1000, BytesPerSecond - 1, BytesPerSecond, BytesPerSecond + 1,
     2 * BytesPerSecond, 59 * BytesPerSecond + 1, 60 * BytesPerSecond - 1,
     60 * BytesPerSecond, 60 * BytesPerSecond + 1, 700000000,
     120 * BytesPerSecond, 120 * BytesPerSecond + 1}

Calls ==
    {[fn |-> "humanizeError", arg |-> e] : e \in KeyedErrors \cup PlainErrors \cup TwoKeyErrors}
    \cup
    {[fn |-> "needsProgressIndicator", arg |-> n] : n \in ProgressSizes \cup EstimateSizes} \cup
    {[fn |-> "estimateProcessingTime", arg |-> n] : n \in ProgressSizes \cup EstimateSizes}

\* the call is made and returns
Return(fn, value) ==
    /\ call.fn = fn
    /\ IsNull(returned)
    /\ returned' = Some(value)
    /\ UNCHANGED <<hookVars, appVars, request, call, histVars>>

CallHumanizeError == Return("humanizeError", humanizeError(call.arg))

CallNeedsProgressIndicator ==
    Return("needsProgressIndicator", needsProgressIndicator(call.arg))

CallEstimateProcessingTime ==
    Return("estimateProcessingTime", estimateProcessingTime(call.arg))

-----------------------------------------------------------------------------
(* Specifications *)

InitState ==
    /\ module = None
    /\ isLoading = TRUE
    /\ error = None
    /\ version = None
    /\ retryCount = 0
    /\ inFlight = 0
    /\ loadsStarted = 0
    /\ mounted = FALSE
    /\ tornDown = FALSE
    /\ file = None
    /\ source = "telegram"
    /\ format = "csv"
    /\ flags = [timestamps |-> FALSE, replays |-> FALSE]
    /\ status = "idle"
    /\ appError = None
    /\ result = None
    /\ progress = None
    /\ jobs = <<>>
    /\ resetTimers = 0
    /\ sizeError = None
    /\ lastOp = "init"
    /\ lastRaw = None
    /\ retryCalls = 0
    /\ lastConvert = None

\* no call of a pure function is under consideration
NoCall == [fn |-> "none", arg |-> None]

Init == InitState /\ request \in Requests /\ call = NoCall /\ returned = None

\* the hook, and a caller that may call retry() and convert() in any state
Next ==
    \/ Mount
    \/ Retry
    \/ LoadSucceeds
    \/ \E raw \in LoadErrors : LoadFails(raw)
    \/ \E outcome \in ModuleOutcomes : Convert(outcome)
    \/ Unmount

Spec == Init /\ [][Next]_vars

\* the hook when the import and the init of every suspended loadWasm
\* eventually settle
LiveSpec ==
    /\ Init
    /\ [][Next]_vars
    /\ WF_vars(LoadSucceeds \/ \E raw \in LoadErrors : LoadFails(raw))

\* the request of a caller that makes no call
NoRequest == [input |-> TXT_Empty, source |-> "telegram", format |-> "csv", options |-> None]

AppInit == InitState /\ request = NoRequest /\ call = NoCall /\ returned = None

\* the App: the hook driven through the user interface
AppNext ==
    \/ Mount
    \/ RetryClick
    \/ LoadSucceeds
    \/ \E raw \in LoadErrors : LoadFails(raw)
    \/ \E f \in CandidateFiles : SelectFile(f)
    \/ RemoveFile
    \/ \E s \in SourceChoices : SetSource(s)
    \/ \E fmt \in FormatChoices : SetFormat(fmt)
    \/ \E flag \in FlagNames : ToggleFlag(flag)
    \/ ConvertClick
    \/ \E j \in 1..Len(jobs) : ProgressTick(j)
    \/ \E j \in 1..Len(jobs), content \in FileTexts, outcome \in FileOutcomes :
          TextResolves(j, content, outcome)
    \/ \E j \in 1..Len(jobs), failure \in ReadFailures : TextRejects(j, failure)
    \/ ProgressReset

AppSpec == AppInit /\ [][AppNext]_vars

\* one call of a pure function of useWasm.ts, on each argument explored
UtilInit == InitState /\ request = NoRequest /\ call \in Calls /\ returned = None

UtilNext ==
    \/ CallHumanizeError
    \/ CallNeedsProgressIndicator
    \/ CallEstimateProcessingTime

UtilSpec == UtilInit /\ [][UtilNext]_vars

\* the App with a module that loads, where a handleConvert may start
\* while an earlier one is still suspended
OverlapNext ==
    \/ Mount
    \/ LoadSucceeds
    \/ \E f \in CandidateFiles : SelectFile(f)
    \/ RemoveFile
    \/ StartConvert(MaxOverlap)
    \/ \E j \in 1..Len(jobs) : Tick(j, MaxOverlapTicks)
    \/ \E j \in 1..Len(jobs), content \in FileTexts, outcome \in FileOutcomes :
          TextResolves(j, content, outcome)
    \/ \E j \in 1..Len(jobs), failure \in ReadFailures : TextRejects(j, failure)
    \/ ProgressReset

OverlapSpec == AppInit /\ [][OverlapNext]_vars

-----------------------------------------------------------------------------
(* Properties of the loader and the invoker *)

\* the convert() invocation of the last step
Inv == Value(lastConvert)

Converted == lastOp = "convert"

\* a string that is empty or holds white space only
OnlyWhiteSpace(s) == \A i \in 1..Len(s) : s[i] \in WhiteSpace

\* the value of a flag of the options argument, false when left unspecified
GivenFlag(optionsArg, name) ==
    /\ ~IsNull(optionsArg)
    /\ name \in DOMAIN Value(optionsArg)
    /\ Value(optionsArg)[name]

\* C1: convert() invoked while the loader is not Ready (isReady = false)
\* fails with the NotLoaded error and makes no call of the module's convert.
C1_NotReadyFailsNotLoaded ==
    (Converted /\ ~Inv.ready) =>
        /\ ~Inv.ok
        /\ Inv.value = ERR_NotLoaded
        /\ Inv.calls = <<>>

\* C2: in every reachable state the module handle is non-null if and only
\* if the loader is Ready.
C2_HandleIffReady == (~IsNull(module)) <=> isReady

\* C3: with the loader Ready, convert() of an input that is empty or only
\* white space fails with the EmptyInput error and makes no call of the
\* module's convert, whatever the source, format and options.
C3_BlankInputFailsEmptyInput ==
    (Converted /\ Inv.ready /\ OnlyWhiteSpace(Inv.input)) =>
        /\ ~Inv.ok
        /\ Inv.value = ERR_EmptyFile
        /\ Inv.calls = <<>>

C3_Witness ==
    /\ Converted /\ Inv.ready
    /\ Inv.input = TXT_Newlines
    /\ Inv.options = Some([timestamps |-> TRUE, replays |-> TRUE])
    /\ Inv.value = ERR_EmptyFile

\* C4: with the loader Ready and a non-blank input, convert() calls the
\* module's convert exactly once, with input, source and format unchanged
\* and the two flags as given in the options (false when unspecified), and
\* returns the string the module returned, unchanged.
C4_DelegatesVerbatim ==
    (Converted /\ Inv.ready /\ ~OnlyWhiteSpace(Inv.input)) =>
        /\ Len(Inv.calls) = 1
        /\ Inv.calls[1] =
              [input |-> Inv.input, source |-> Inv.source, format |-> Inv.format,
               includeTimestamps |-> GivenFlag(Inv.options, "timestamps"),
               includeReplies |-> GivenFlag(Inv.options, "replays")]
        /\ ~Value(Inv.outcome).threw =>
              (Inv.ok /\ Inv.value = Value(Inv.outcome).value)

C4_Witness ==
    /\ Converted /\ Inv.ready
    /\ Inv.input = TXT_Padded
    /\ Inv.options = Some([timestamps |-> TRUE])
    /\ Inv.calls # <<>>
    /\ Inv.calls[1].includeTimestamps /\ ~Inv.calls[1].includeReplies
    /\ Inv.ok /\ Inv.value = OUT_Csv

\* C5: the timestamps and replays flags shown in the FlagsSelector when
\* Convert is clicked are the includeTimestamps and includeReplies values
\* the module's convert receives for that conversion.
C5_FlagsReachModule ==
    (lastOp = "converted" /\ Inv.calls # <<>>) =>
        /\ Inv.calls[1].includeTimestamps = Value(Inv.uiFlags).timestamps
        /\ Inv.calls[1].includeReplies = Value(Inv.uiFlags).replays

\* C6: when the module's convert throws, convert() fails with the
\* classification of the raw message: the fixed message of a known key, the
\* generic message for a message with a crash marker, never the raw message
\* where the classifier replaces it.
C6_ModuleErrorClassified ==
    (Converted /\ Inv.calls # <<>> /\ Value(Inv.outcome).threw) =>
        LET raw == Value(Inv.outcome).value
        IN  /\ ~Inv.ok
            /\ Inv.value = humanizeError(raw)
            /\ raw = RAW_UnknownSourceFoo => Inv.value = MSG_UnknownSource
            /\ raw = RAW_Panicked => Inv.value = MSG_default
            /\ raw = RAW_Boom => Inv.value = RAW_Boom

C6_Witness ==
    /\ Converted /\ Inv.calls # <<>>
    /\ Value(Inv.outcome) = [threw |-> TRUE, value |-> RAW_Panicked]
    /\ Inv.value = MSG_default

\* C7: whenever a load attempt succeeds, the loader ends with the handle
\* and the version stored, isLoading = false, isReady = true and
\* error = null.
C7_SuccessClearsError ==
    lastOp = "loadSucceeded" =>
        /\ ~IsNull(module)
        /\ ~IsNull(version)
        /\ ~isLoading
        /\ isReady
        /\ IsNull(error)

\* C8: whenever a load attempt fails, the loader ends with
\* isLoading = false, isReady = false, error the classification of the raw
\* message, and a null handle.
C8_FailureLeavesNotReady ==
    lastOp = "loadFailed" =>
        /\ ~isLoading
        /\ ~isReady
        /\ error = Some(humanizeError(Value(lastRaw)))
        /\ IsNull(module)

\* C9: retryCount always equals the number of retry() calls made (each
\* call adds exactly 1, no other operation changes it), and a retry()
\* leaves the loader Loading: isLoading = true, isReady = false,
\* error = null.
C9_RetryCounts ==
    /\ retryCount = retryCalls
    /\ lastOp = "retry" => (isLoading /\ ~isReady /\ IsNull(error))

C9_Witness ==
    /\ lastOp = "retry"
    /\ retryCount = 2
    /\ ~IsNull(module)

\* the loader has resolved to Failed
Failed == ~isLoading /\ ~IsNull(error)

\* C10: a loader that has resolved to Failed stays Failed, with the same
\* error, in every step that is not a retry() call
C10_FailedUntilRetry ==
    [][(Failed /\ retryCalls' = retryCalls) => (Failed' /\ error' = error)]_vars

\* C10: the loader never retries on its own: Failed is left only by a
\* retry() call, and the load attempts started are the one at mount and
\* one for each retry() call.
C10_NoAutomaticRetry ==
    /\ [](mounted => loadsStarted = 1 + retryCalls)
    /\ C10_FailedUntilRetry

-----------------------------------------------------------------------------
(* Properties of the pure functions *)

\* the call of fn has been made
Returned(fn) == call.fn = fn /\ ~IsNull(returned)

\* the known keys a raw message contains, in any letter case
KeysIn(raw) ==
    {k \in KnownKeys : includes(toLowerCase(raw), toLowerCase(ERROR_MESSAGES[k].key))}

\* the raw message contains a crash marker
HasCrashMarker(raw) == includes(raw, MARK_panicked) \/ includes(raw, MARK_wasm)

\* C11: for a raw error string that contains a known key in any letter
\* case, humanizeError returns exactly the fixed message of a matching key,
\* whatever surrounds the key, whatever the length of the string and
\* whether or not it contains a crash marker.
C11_KeyedErrorGetsFixedMessage ==
    (Returned("humanizeError") /\ KeysIn(call.arg) # {}) =>
        \E k \in KeysIn(call.arg) : Value(returned) = ERROR_MESSAGES[k].message

C11_Witness ==
    /\ Returned("humanizeError")
    /\ call.arg = Filler(100) \o toUpperCase(KEY_InvalidJSON) \o SUF_Panicked
    /\ Value(returned) = MSG_InvalidJSON

\* C12: for a raw error string that contains no known key, is shorter than
\* 100 characters and contains no crash marker, humanizeError returns the
\* string unchanged.
C12_PlainShortErrorUnchanged ==
    (/\ Returned("humanizeError")
     /\ KeysIn(call.arg) = {}
     /\ Len(call.arg) < 100
     /\ ~HasCrashMarker(call.arg)) =>
        Value(returned) = call.arg

\* C13: for a raw error string that contains no known key and is 100
\* characters or longer, or contains a crash marker, humanizeError returns
\* the generic fallback message and not the raw string.
C13_LongOrCrashErrorGetsFallback ==
    (/\ Returned("humanizeError")
     /\ KeysIn(call.arg) = {}
     /\ (Len(call.arg) >= 100 \/ HasCrashMarker(call.arg))) =>
        /\ Value(returned) = MSG_default
        /\ Value(returned) # call.arg

C13_Witness ==
    /\ Returned("humanizeError")
    /\ call.arg = Filler(100)
    /\ Value(returned) = MSG_default

\* C14: needsProgressIndicator(byteSize) is true if and only if byteSize
\* exceeds 1,048,576: false at exactly 1,048,576, true at 1,048,577 and at
\* 2,097,152.
C14_ProgressAboveOneMiB ==
    Returned("needsProgressIndicator") =>
        /\ Value(returned) <=> (call.arg > 1048576)
        /\ call.arg = 1048576 => ~Value(returned)
        /\ call.arg \in {1048577, 2097152} => Value(returned)

C14_Witness ==
    /\ Returned("needsProgressIndicator")
    /\ call.arg = 1048577
    /\ Value(returned)

\* the least whole number of units that covers the bytes
UnitsCovering(bytes, unit) ==
    CHOOSE n \in 0..200 : n * unit >= bytes /\ (n = 0 \/ (n - 1) * unit < bytes)

\* C15: with seconds = byteSize / 100 / 100,000, estimateProcessingTime
\* returns 'less than a second' exactly when seconds < 1 (byteSize below
\* 10,000,000), the seconds string of ceil(seconds) exactly when
\* 1 <= seconds < 60, and the minutes string of ceil(seconds / 60) exactly
\* when seconds >= 60 (byteSize of 600,000,000 or more).
C15_EstimateByRange ==
    Returned("estimateProcessingTime") =>
        LET bytes == call.arg
            text  == Value(returned)
        IN  /\ (text = STR_LessThanASecond) <=> (bytes < 10000000)
            /\ endsWith(text, STR_Sec) <=> (bytes >= 10000000 /\ bytes < 600000000)
            /\ endsWith(text, STR_Min) <=> (bytes >= 600000000)
            /\ endsWith(text, STR_Sec) =>
                  text = <<"~">> \o NumberToString(UnitsCovering(bytes, 10000000))
                            \o STR_Sec
            /\ endsWith(text, STR_Min) =>
                  text = <<"~">> \o NumberToString(UnitsCovering(bytes, 600000000))
                            \o STR_Min

C15_Witness ==
    /\ Returned("estimateProcessingTime")
    /\ call.arg = 700000000
    /\ Value(returned) = <<"~", "2", " ", "m", "i", "n">>

-----------------------------------------------------------------------------
(* Properties of the App and of the loader under teardown *)

\* C16: no file above 50 MiB is the App's selected file or the file of a
\* pending conversion, and a drop of such a file leaves a size error that
\* reports its size and the limit.
C16_NoFileAboveLimit ==
    /\ ~IsNull(file) => Value(file).size <= 52428800
    /\ \A j \in 1..Len(jobs) : jobs[j].file.size <= 52428800
    /\ lastOp = "fileRejected" =>
          /\ ~IsNull(sizeError)
          /\ \E f \in CandidateFiles :
                /\ f.size > 52428800
                /\ Value(sizeError).shown = formatFileSize(f.size)
          /\ Value(sizeError).max = [number |-> 500, tenths |-> TRUE, unit |-> "MB"]

\* C16: a candidate file above 50 MiB is rejected by the DropZone before
\* any read or convert attempt: onFileSelect is not called for it (the
\* App's file, status, result and pending conversions stay as they are).
C16_OversizeRejected ==
    /\ []C16_NoFileAboveLimit
    /\ [][lastOp' = "fileRejected" => UNCHANGED <<file, source, status, result, jobs>>]_vars

\* a file of exactly 50 MiB was accepted, and a larger one is then rejected
C16_Witness ==
    /\ lastOp = "fileRejected"
    /\ ~IsNull(file)
    /\ Value(file).size = 52428800
    /\ ~IsNull(sizeError)

\* the last step was a conversion attempt that failed
ConversionFailed ==
    \/ lastOp = "readFailed"
    \/ lastOp = "converted" /\ ~Inv.ok

\* C17: after every failed load attempt the loader's error is non-null and
\* rendered, and after every failed conversion attempt the App has status
\* 'error' with a non-null error message that is rendered.
C17_NoFailureSwallowed ==
    /\ lastOp = "loadFailed" => (~IsNull(error) /\ WasmErrorShown)
    /\ ConversionFailed => (status = "error" /\ ~IsNull(appError) /\ ErrorShown)

\* C18: at most one load attempt is in flight at any time, and a retry()
\* starts an attempt only when the previous one has resolved to Failed.
C18_OneLoadInFlight ==
    /\ [](inFlight <= 1)
    /\ [][retryCalls' # retryCalls => (inFlight = 0 /\ Failed)]_vars

C18_Witness == retryCalls = MaxRetries /\ inFlight = 1 /\ lastOp = "retry"

\* C19: once the hosting component is torn down, a load attempt that
\* resolves changes none of module handle, version, error and isLoading.
C19_NoUpdateAfterTeardown ==
    [][tornDown => UNCHANGED <<module, version, error, isLoading>>]_vars

\* C20: whenever a load attempt is in flight, isLoading = true and
\* isReady = false.
C20_InFlightMeansLoading == inFlight > 0 => (isLoading /\ ~isReady)

-----------------------------------------------------------------------------
(* Further properties of the pure functions *)

\* C23: for a raw error string that contains more than one known key,
\* humanizeError returns the message of the key declared earliest,
\* wherever the keys occur in the string.
C23_EarliestDeclaredKeyWins ==
    (Returned("humanizeError") /\ Cardinality(KeysIn(call.arg)) > 1) =>
        \A k \in KeysIn(call.arg) :
            (\A other \in KeysIn(call.arg) : k <= other) =>
                Value(returned) = ERROR_MESSAGES[k].message

\* 'network: foo' before 'Unknown source': the key declared first wins
C23_Witness ==
    /\ Returned("humanizeError")
    /\ call.arg = KEY_network \o SUF_Foo \o KEY_UnknownSource
    /\ Value(returned) = MSG_UnknownSource

\* the call was made on a file of 2 MiB
OnTwoMiB(fn) == Returned(fn) /\ call.arg = 2097152

\* C24, as stated: for a file of 2,097,152 bytes estimateProcessingTime
\* returns an integer-second or a minute string.
C24_TwoMiBSecondsOrMinutes ==
    OnTwoMiB("estimateProcessingTime") =>
        (endsWith(Value(returned), STR_Sec) \/ endsWith(Value(returned), STR_Min))

\* C24, amended: for a file of 2,097,152 bytes needsProgressIndicator is
\* true and estimateProcessingTime returns 'less than a second', which is
\* what seconds = byteSize / 100 / 100,000 = 0.2097152 < 1 gives.
C24_TwoMiBLessThanASecond ==
    /\ OnTwoMiB("needsProgressIndicator") => Value(returned)
    /\ OnTwoMiB("estimateProcessingTime") =>
          /\ 2097152 < 100 * 100000
          /\ Value(returned) = STR_LessThanASecond

C24_Witness ==
    /\ OnTwoMiB("estimateProcessingTime")
    /\ Value(returned) = STR_LessThanASecond

-----------------------------------------------------------------------------
(* Further properties of the loader and the invoker *)

\* C21: isLoading turns false only in the step in which a load attempt
\* resolves or rejects: no timeout and no other transition leaves Loading.
C21_LeavesLoadingByResolution ==
    [][(isLoading /\ ~isLoading') => lastOp' \in {"loadSucceeded", "loadFailed"}]_vars

\* C21: the loader leaves Loading only through the resolution of its load
\* attempt, and when the import and the init of every attempt settle, a
\* loader that is Loading eventually reaches Ready or Failed.
C21_LoadingEndsWithResolution ==
    /\ C21_LeavesLoadingByResolution
    /\ (mounted /\ isLoading) ~> (~isLoading /\ (isReady \/ Failed))

C21_Witness == lastOp = "loadFailed" /\ Failed /\ ~isReady /\ retryCalls > 0

\* C22: a convert() call leaves module handle, isLoading, isReady, error,
\* version and retryCount as they were and starts no load attempt.
C22_ConvertLeavesLoader ==
    [][lastOp' = "convert" =>
          /\ UNCHANGED <<module, isLoading, error, version, retryCount>>
          /\ isReady' = isReady
          /\ UNCHANGED <<inFlight, loadsStarted>>]_vars

\* C22: a convert() call that follows another one with the same arguments
\* invokes the module again: nothing is cached.
C22_NoCachedResult ==
    [][(Converted /\ lastOp' = "convert" /\ Inv.calls # <<>>) =>
          Len(Value(lastConvert').calls) = 1]_vars

\* C22: convert(), whether it succeeds or fails, has no effect on the
\* loader state and caches nothing.
C22_ConvertHasNoSideEffect == C22_ConvertLeavesLoader /\ C22_NoCachedResult

\* a failed convert() of a loader that has been retried and is Ready
C22_Witness ==
    /\ Converted /\ Inv.ready /\ ~Inv.ok
    /\ Len(Inv.calls) = 1
    /\ retryCount > 0

-----------------------------------------------------------------------------
(* Further properties of the App *)

\* the last step ended a conversion attempt with success
AttemptSucceeded == lastOp = "converted" /\ Inv.ok

\* C25: while status stays 'converting' the progress value does not
\* decrease.
C25_ProgressNeverDecreases ==
    [][(/\ status = "converting" /\ status' = "converting"
        /\ ~IsNull(progress) /\ ~IsNull(progress')) =>
          Value(progress') >= Value(progress)]_vars

\* C25: progress becomes 100 only in the step in which convert returned
\* successfully.
C25_HundredOnlyOnSuccess ==
    [][(progress' = Some(100 * ProgressScale) /\ progress # progress') =>
          (lastOp' = "converted" /\ Value(lastConvert').ok)]_vars

\* C25: while a conversion is in flight the progress never decreases and
\* stays below 100 (at most 95); it becomes 100 only after convert has
\* returned successfully, never on a failed conversion.
C25_ProgressOnlyAdvances ==
    /\ [](status = "converting" /\ ~IsNull(progress) =>
            Value(progress) <= 95 * ProgressScale)
    /\ [](ConversionFailed => progress # Some(100 * ProgressScale))
    /\ C25_HundredOnlyOnSuccess
    /\ C25_ProgressNeverDecreases

\* C26: at the end of every conversion attempt a failed attempt leaves no
\* ConversionResult in state and a successful attempt leaves no error in
\* state.
C26_ResultAndErrorOfLastAttempt ==
    /\ ConversionFailed => IsNull(result)
    /\ AttemptSucceeded => (IsNull(appError) /\ ~IsNull(result))

\* exactly one of three conditions holds
ExactlyOne(a, b, c) == (a /\ ~b /\ ~c) \/ (~a /\ b /\ ~c) \/ (~a /\ ~b /\ c)

\* C27: in every reachable state exactly one of isLoading, error != null
\* and isReady holds, and the App shows exactly one of the loading panel,
\* the error panel with the retry button, and the converter.
C27_ExactlyOnePanel ==
    /\ ExactlyOne(isLoading, ~IsNull(error), isReady)
    /\ ExactlyOne(LoadingShown, WasmErrorShown, ConverterShown)
    /\ ~(isReady /\ ~IsNull(error))

\* C28: at most one handleConvert is in flight, and while it is, status is
\* 'converting' and the selected file, source and format are those it was
\* started with.
C28_OneConversionUnchangedRequest ==
    /\ Len(jobs) <= 1
    /\ Len(jobs) = 1 =>
          /\ status = "converting"
          /\ file = Some(jobs[1].file)
          /\ source = jobs[1].source
          /\ format = jobs[1].format

\* C29: once a conversion has set its progress, the progress stays defined
\* for as long as status stays 'converting', also when the reset timer of
\* an earlier conversion fires.
C29_ResetNeverHitsLaterConversion ==
    [][(status = "converting" /\ status' = "converting" /\ ~IsNull(progress)) =>
          ~IsNull(progress')]_vars

\* C30: rejecting an oversized file changes only the size error: the App's
\* file, source, status, result and error stay as they are, a file selected
\* earlier stays convertible while the size error is shown, and selecting a
\* valid file clears the size error.
C30_RejectionOnlySetsSizeError ==
    /\ [][lastOp' = "fileRejected" =>
            (UNCHANGED <<file, source, status, result, appError>> /\ ~IsNull(sizeError'))]_vars
    /\ []((lastOp = "fileRejected" /\ ~IsNull(file)) => ~ConvertButtonDisabled)
    /\ [](lastOp = "fileSelected" => IsNull(sizeError))

\* the file selected before the rejection is converted with the size error
\* still shown
C30_Witness ==
    /\ lastOp = "convertClicked"
    /\ ~IsNull(sizeError)
    /\ Len(jobs) = 1 /\ Some(jobs[1].file) = file

=============================================================================
